---- MODULE Spec2Model ----
(***************************************************************************)
(* Stars.py: a supervisor (main_loop) that starts one ChatMonitor task per *)
(* listed buyer, the monitor's attach/poll loop (ChatMonitor.start), the   *)
(* per-buyer fulfillment state machine (ChatMonitor.handle), the file      *)
(* backed state (FileManager) and the retrying API client (PlayerokAPI).   *)
(*                                                                         *)
(* One buyer is modelled: every key of FileManager and of `monitors` is    *)
(* the buyer's name, and monitors of different buyers share no key.        *)
(* A position of a task (pc) is an await of the code: a step of the model  *)
(* runs from one await to the next, which is where asyncio can switch      *)
(* tasks, deliver a cancellation, or the process can die.                  *)
(***************************************************************************)
EXTENDS Integers, Sequences, FiniteSets, TLC

\* ------------------------------------------------------------- bounds
MaxThread == 3      \* events the buyer's thread can hold
MaxTasks == 1       \* ChatMonitor tasks that can be alive at once
MaxBuys == 2        \* successful purchases counted per thread event
MaxFaults == 1      \* page-driver exceptions, short listings and process deaths
MaxBuyers == 21     \* buyers that have a chat with the seller
MaxWaiting == 1     \* buyers whose waiting flag is true at once

\* ---------------------------------------------------------- constants
API_RETRY_ATTEMPTS == 3
API_BACKOFF_FACTOR == 2
MAX_CHATS == 20

Buyer == "buyer"
Tasks == 1..MaxTasks
Events == 1..MaxThread

\* ------------------------------------------------------ thread text
\* A line of thread text is a sequence of words. The Cyrillic words are
\* written in Latin letters: "Oplatil pokupku" is the payment phrase as the
\* chat shows it (capitalised), "zvezd" / "zvyozd" the unit with e / yo.
PayLine == <<"Oplatil", "pokupku">>
QtyLine1 == <<"1", "zvezd">>
QtyLine2 == <<"2", "zvyozd">>
TextLine == <<"privet">>
ThreadLines == {PayLine, QtyLine1, QtyLine2, TextLine}

\* str.lower() on a word
LowerWord(w) == IF w = "Oplatil" THEN "oplatil" ELSE w

\* .replace(yo, e) on a word
ReplaceYo(w) == IF w = "zvyozd" THEN "zvezd" ELSE w

\* normalized = sys_text.lower().replace(yo, e)
Normalize(text) == [k \in 1..Len(text) |-> ReplaceYo(LowerWord(text[k]))]

\* 'oplatil pokupku' in text_lower
ContainsPayment(n) ==
    \E k \in 1..(Len(n) - 1) : n[k] = "oplatil" /\ n[k + 1] = "pokupku"

Digits == {"1", "2"}

\* int(match.group(1))
ToInt(w) == IF w = "1" THEN 1 ELSE IF w = "2" THEN 2 ELSE 0

\* re.search(r"(\d+)\s*zvezd", normalized): the leftmost match, 0 for none
MatchStars(n) ==
    LET hits == {k \in 1..(Len(n) - 1) : n[k] \in Digits /\ n[k + 1] = "zvezd"}
    IN IF hits = {} THEN 0
       ELSE ToInt(n[CHOOSE k \in hits : \A j \in hits : k <= j])

\* ------------------------------------------------- recipient field text
\* The text of the last element of the recipient field, as its characters.
FieldTexts == {<<"@", "a">>, <<"@", "b">>, <<"a">>}
NoText == <<>>          \* a local of handle() that is not assigned yet
TxHashes == {"tx1", "tx2"}
NoData == "none"

\* Mutant of StartsWithAt: any text that is not empty passes for an identifier.
AnyText(s) == Len(s) > 0

\* last_user.startswith('@')
StartsWithAt(s) == Len(s) > 0 /\ s[1] = "@"

\* telegram = last_user[1:]
StripSigil(s) == IF Len(s) = 0 THEN <<>> ELSE Tail(s)

\* hashlib.sha256(last_user.encode('utf-8')).hexdigest(): distinct texts have
\* distinct digests; a digest is named by its place in this table.
DigestTable == << <<"@", "a">>, <<"@", "b">>, <<"a">> >>
Sha256(s) == CHOOSE k \in 1..Len(DigestTable) : DigestTable[k] = s
NoFile == 0             \* get_last() returns None: the file does not exist

VARIABLES
    thread,          \* the texts of the buyer's thread, oldest first
    user_elems,      \* the elements the recipient-field selector matches
    chat_states,     \* FileManager.chat_states[buyer] (0 when absent)
    buyer_states,    \* FileManager.buyer_states[buyer] (FALSE when absent)
    last_file,       \* contents of last_user_message_id_<buyer>.txt
    sup,             \* the process: "running" main_loop, "stopped" (killed),
                     \* or "failed" (ended by an exception out of main_loop)
    monitors,        \* main_loop's monitors[buyer]: a task, or 0 for no key
    current_buyers,  \* main_loop's current_buyers of the last sync pass
    mon,             \* the ChatMonitor tasks, by task slot
    bought,          \* per thread event: successful buy_stars calls made for it
    fulfilled,       \* thread events whose handle() ran to its return
    faults,          \* how many faults the environment has injected so far
    api,             \* one PlayerokAPI call and its retry loop
    pool             \* main_loop over many buyers: the keys of `monitors` and
                     \* the buyers whose waiting flag is true

mainVars == <<thread, user_elems, chat_states, buyer_states, last_file, sup,
              monitors, current_buyers, mon, bought, fulfilled, faults>>
vars == <<thread, user_elems, chat_states, buyer_states, last_file, sup,
          monitors, current_buyers, mon, bought, fulfilled, faults, api, pool>>

\* No task in the slot.
NoMonitor ==
    [pc |-> "none", page |-> "none", last_count |-> 0, payment_pending |-> FALSE,
     attaching |-> FALSE, saved |-> 0, i |-> 0, hi |-> 0, fed |-> <<>>,
     stars |-> 0, last_user |-> NoText, telegram |-> NoText, tried |-> FALSE,
     warned |-> FALSE, data |-> NoData, workflow |-> "none"]

\* ChatMonitor.__init__, and asyncio.create_task(mon.start()): the task waits
\* at the top of start()'s loop.
NewMonitor == [NoMonitor EXCEPT !.pc = "top"]

\* No API call in progress.
NoCall == [op |-> "none", pc |-> "idle", attempt |-> 0, resps |-> <<>>,
           sleeps |-> <<>>, result |-> "none"]

Init ==
    /\ thread = <<>>
    /\ user_elems = <<>>
    /\ chat_states = 0
    /\ buyer_states = FALSE
    /\ last_file = NoFile
    /\ sup = "running"
    /\ monitors = 0
    /\ current_buyers = {}
    /\ mon = [t \in Tasks |-> NoMonitor]
    /\ bought = [e \in Events |-> 0]
    /\ fulfilled = {}
    /\ faults = 0
    /\ api = NoCall
    /\ pool = [monitors |-> {}, waiting |-> {}]

\* ------------------------------------------------------- environment
\* The chat appends a line to the buyer's thread.
AppendEvent ==
    /\ sup = "running"
    /\ Len(thread) < MaxThread
    /\ \E line \in ThreadLines : thread' = Append(thread, line)
    /\ UNCHANGED <<user_elems, chat_states, buyer_states, last_file, sup, monitors,
                   current_buyers, mon, bought, fulfilled, faults, api, pool>>

\* The recipient field of the page shows another last element, or none.
SetField ==
    /\ buyer_states
    /\ \E v \in {<<>>} \cup {<<s>> : s \in FieldTexts} :
          /\ v # user_elems
          /\ user_elems' = v
    /\ UNCHANGED <<thread, chat_states, buyer_states, last_file, sup, monitors,
                   current_buyers, mon, bought, fulfilled, faults, api, pool>>

\* -------------------------------------------------------- supervisor
\* Mutant of ShouldCancel: the waiting flag is not looked at.
CancelIfAbsent(listed, waiting) == ~listed

\* line 278: buyer not in current_buyers and not fm.is_waiting(buyer)
ShouldCancel(listed, waiting) == ~listed /\ ~waiting

\* The least free task slot.
FreeSlot == CHOOSE t \in Tasks : mon[t].pc = "none" /\ \A u \in Tasks : mon[u].pc = "none" => t <= u

\* What Task.cancel() leaves of a task: CancelledError is raised at the await
\* the task is suspended in. It is a BaseException, so no `except Exception`
\* catches it and the task ends, except in the bare `except:` around
\* `await self.page.close()` (lines 175-179), which swallows it: start() goes
\* on to sleep and loop. The interrupted close has closed the page or not.
AfterCancel(m) ==
    IF m.pc = "closing"
    THEN {[m EXCEPT !.pc = "top", !.page = p] : p \in {"closed", "open"}}
    ELSE {NoMonitor}

\* One sync pass of main_loop (lines 262-282) that lists the buyer or not.
SyncPass ==
    /\ sup = "running"
    /\ \E listed \in BOOLEAN :
          /\ current_buyers' = IF listed THEN {Buyer} ELSE {}
          /\ \/ /\ listed /\ monitors = 0
                /\ \E t \in Tasks : mon[t].pc = "none"
                /\ monitors' = FreeSlot
                /\ mon' = [mon EXCEPT ![FreeSlot] = NewMonitor]
             \/ /\ monitors # 0 /\ ShouldCancel(listed, buyer_states)
                /\ monitors' = 0
                /\ \E m \in AfterCancel(mon[monitors]) :
                      mon' = [mon EXCEPT ![monitors] = m]
             \/ /\ ~(listed /\ monitors = 0)
                /\ ~(monitors # 0 /\ ShouldCancel(listed, buyer_states))
                /\ UNCHANGED <<monitors, mon>>
    /\ UNCHANGED <<thread, user_elems, chat_states, buyer_states, last_file, sup,
                   bought, fulfilled, faults, api, pool>>

\* The process is gone: every task with it, and all that was in memory.
Stopped(how) ==
    /\ faults < MaxFaults
    /\ faults' = faults + 1
    /\ sup' = how
    /\ monitors' = 0
    /\ current_buyers' = {}
    /\ mon' = [t \in Tasks |-> NoMonitor]
    /\ UNCHANGED <<thread, user_elems, chat_states, buyer_states, last_file,
                   bought, fulfilled, api, pool>>

\* A page-driver call of the sync pass raises (lines 263-271, 281): nothing in
\* main_loop catches it, asyncio.run() ends and the process exits.
SyncFail ==
    /\ sup = "running"
    /\ Stopped("failed")

\* The process is killed at any moment.
Crash ==
    /\ sup = "running"
    /\ Stopped("stopped")

\* The process is started again: main_loop lines 244-259. FileManager reads
\* back the files, which hold what was last written.
Restart ==
    /\ sup # "running"
    /\ sup' = "running"
    /\ UNCHANGED <<thread, user_elems, chat_states, buyer_states, last_file,
                   monitors, current_buyers, mon, bought, fulfilled, faults, api, pool>>

\* ------------------------------------------------ ChatMonitor.start
\* Mutant of AttachStart: the attach feeds the whole listing.
AttachFromZero(saved) == 0

\* Zero-based index of the first element the attach feeds: current[saved:]
AttachStart(saved) == saved

\* Mutant of PollStart: a poll passes over the first new element.
PollSkip(last_count) == last_count + 1

\* Zero-based index of the first element a poll feeds: elems[self.last_count:new_len]
PollStart(last_count) == last_count

\* The locals of handle(), gone with its frame.
Left(m) ==
    [m EXCEPT !.stars = 0, !.last_user = NoText, !.telegram = NoText,
              !.tried = FALSE, !.warned = FALSE, !.data = NoData,
              !.workflow = "none"]

\* The locals of handle() and of the batch loop, cleared.
Cleared(m) ==
    [Left(m) EXCEPT !.attaching = FALSE, !.saved = 0, !.i = 0, !.hi = 0,
                    !.fed = <<>>]

\* handle() has returned for element m.i: the `for` loop takes the next
\* element, or ends and start() sets self.last_count (lines 159, 169).
AfterHandle(m) ==
    IF m.i < m.hi
    THEN [Left(m) EXCEPT !.pc = "batch", !.i = m.i + 1]
    ELSE [Cleared(m) EXCEPT !.pc = "top", !.last_count = m.hi]

\* Mutant of StoredAfter: the count is stored after every handled event.
StoredEarly(m, stored) == m.i

\* fm.set_last_count(self.buyer, self.last_count) when the loop has ended
\* (lines 160, 170); the stored count is left alone before that.
StoredAfter(m, stored) == IF m.i < m.hi THEN stored ELSE m.hi

\* The numbers of elements a listing of the thread can show. A listing made
\* before the latest lines were appended is a listing in an earlier state; the
\* one case that is not is a page that shows fewer elements than the stored
\* count (not rendered after the one-second sleep, or lines removed).
Listings(stored) ==
    {Len(thread)} \cup (IF faults < MaxFaults THEN 0..(stored - 1) ELSE {})

\* Lines 148-160: no page, or a closed one. A new page is opened on the
\* thread, which lists n elements; the elements from the stored count on are
\* fed to handle(), then len(current) is stored.
Attach(t) ==
    /\ sup = "running"
    /\ mon[t].pc = "top"
    /\ mon[t].page # "open"
    /\ \E n \in Listings(chat_states) :
          LET first == AttachStart(chat_states) + 1 IN
          /\ faults' = IF n < Len(thread) THEN faults + 1 ELSE faults
          /\ IF first > n
             THEN /\ mon' = [mon EXCEPT ![t] = [@ EXCEPT !.page = "open", !.last_count = n]]
                  /\ chat_states' = n
             ELSE /\ mon' = [mon EXCEPT ![t] =
                        [@ EXCEPT !.page = "open", !.pc = "batch", !.attaching = TRUE,
                                  !.saved = chat_states, !.i = first, !.hi = n,
                                  !.fed = <<>>]]
                  /\ UNCHANGED chat_states
    /\ UNCHANGED <<thread, user_elems, buyer_states, last_file, sup, monitors,
                   current_buyers, bought, fulfilled, api, pool>>

\* Lines 162-172: the page is open and lists the thread. More elements than
\* self.last_count: the new ones are fed to handle(). Otherwise the task sleeps.
Poll(t) ==
    /\ sup = "running"
    /\ mon[t].pc = "top"
    /\ mon[t].page = "open"
    /\ LET n == Len(thread) IN
          IF n > mon[t].last_count
          THEN mon' = [mon EXCEPT ![t] =
                    [@ EXCEPT !.pc = "batch", !.attaching = FALSE,
                              !.saved = mon[t].last_count,
                              !.i = PollStart(mon[t].last_count) + 1, !.hi = n,
                              !.fed = <<>>]]
          ELSE UNCHANGED mon
    /\ UNCHANGED <<thread, user_elems, chat_states, buyer_states, last_file, sup,
                   monitors, current_buyers, bought, fulfilled, faults, api, pool>>

\* Lines 158/168 and 184-197: the text of element i is read and handle() runs
\* up to its first await. A payment line sets payment_pending; a quantity
\* line with payment_pending set starts the fulfillment; anything else returns.
Feed(t) ==
    /\ sup = "running"
    /\ mon[t].pc = "batch"
    /\ LET m == [mon[t] EXCEPT !.fed = Append(@, mon[t].i)]
           normalized == Normalize(thread[mon[t].i])
       IN IF ContainsPayment(normalized)
          THEN /\ mon' = [mon EXCEPT ![t] = AfterHandle([m EXCEPT !.payment_pending = TRUE])]
               /\ chat_states' = StoredAfter(m, chat_states)
          ELSE IF MatchStars(normalized) = 0 \/ ~m.payment_pending
          THEN /\ mon' = [mon EXCEPT ![t] = AfterHandle(m)]
               /\ chat_states' = StoredAfter(m, chat_states)
          ELSE /\ mon' = [mon EXCEPT ![t] =
                     [m EXCEPT !.pc = "ask", !.stars = MatchStars(normalized),
                               !.payment_pending = FALSE]]
               /\ UNCHANGED chat_states
    /\ UNCHANGED <<thread, user_elems, buyer_states, last_file, sup, monitors,
                   current_buyers, bought, fulfilled, faults, api, pool>>

\* A page-driver call of start() or handle() raises (new page, goto, the
\* element queries, inner_text): lines 173-180 log it and close the page.
Fail(t) ==
    /\ sup = "running"
    /\ mon[t].pc \in {"top", "batch", "wait"}
    /\ faults < MaxFaults
    /\ faults' = faults + 1
    /\ mon' = [mon EXCEPT ![t] = [Cleared(@) EXCEPT !.pc = "closing", !.page = "open"]]
    /\ UNCHANGED <<thread, user_elems, chat_states, buyer_states, last_file, sup,
                   monitors, current_buyers, bought, fulfilled, api, pool>>

\* Lines 175-180: `await self.page.close()` closes the page, or raises and
\* the bare except passes; then sleep(5) and the loop starts over.
Close(t) ==
    /\ sup = "running"
    /\ mon[t].pc = "closing"
    /\ \E p \in {"closed", "open"} :
          mon' = [mon EXCEPT ![t] = [@ EXCEPT !.pc = "top", !.page = p]]
    /\ UNCHANGED <<thread, user_elems, chat_states, buyer_states, last_file, sup,
                   monitors, current_buyers, bought, fulfilled, faults, api, pool>>

\* ----------------------------------------------- ChatMonitor.handle
\* Mutant of SameAsLast: no read is taken for a repeated one.
NeverSame(uid, stored) == FALSE

\* line 213: uid == self.fm.get_last(self.buyer, 'user')
SameAsLast(uid, stored) == uid = stored

\* Lines 200-204: the request for a username has been sent (send_message
\* returns true or false, and handle() does not look at it); the waiting flag
\* is set and the loop of line 206 is entered.
Ask(t) ==
    /\ sup = "running"
    /\ mon[t].pc = "ask"
    /\ buyer_states' = TRUE
    /\ mon' = [mon EXCEPT ![t] = [@ EXCEPT !.pc = "wait"]]
    /\ UNCHANGED <<thread, user_elems, chat_states, last_file, sup, monitors,
                   current_buyers, bought, fulfilled, faults, api, pool>>

\* Lines 206-218 and 240-242: one turn of the waiting loop. The flag is
\* cleared: handle() returns. No element: sleep. The last element's digest is
\* the stored one: sleep. Otherwise the digest is stored, and a text that
\* starts with '@' goes to buy_stars, any other to the format-error message.
WaitPoll(t) ==
    /\ sup = "running"
    /\ mon[t].pc = "wait"
    /\ IF ~buyer_states
       THEN /\ mon' = [mon EXCEPT ![t] = AfterHandle(@)]
            /\ chat_states' = StoredAfter(mon[t], chat_states)
            /\ UNCHANGED last_file
       ELSE IF user_elems = <<>>
       THEN UNCHANGED <<mon, chat_states, last_file>>
       ELSE LET last_user == user_elems[Len(user_elems)]
                uid == Sha256(last_user)
            IN /\ UNCHANGED chat_states
               /\ IF SameAsLast(uid, last_file)
                  THEN /\ mon' = [mon EXCEPT ![t] = [@ EXCEPT !.last_user = last_user]]
                       /\ UNCHANGED last_file
                  ELSE /\ last_file' = uid
                       /\ IF StartsWithAt(last_user)
                          THEN mon' = [mon EXCEPT ![t] =
                                   [@ EXCEPT !.last_user = last_user, !.pc = "buy",
                                             !.telegram = StripSigil(last_user)]]
                          ELSE mon' = [mon EXCEPT ![t] =
                                   [@ EXCEPT !.last_user = last_user, !.pc = "fmt"]]
    /\ UNCHANGED <<thread, user_elems, buyer_states, sup, monitors, current_buyers,
                   bought, fulfilled, faults, api, pool>>

\* Lines 219-220: buy_stars(telegram, stars) returns (True, data): the
\* purchase is made for the event handle() is in.
BuyOk(t) ==
    /\ sup = "running"
    /\ mon[t].pc = "buy"
    /\ bought[mon[t].i] < MaxBuys
    /\ bought' = [bought EXCEPT ![mon[t].i] = @ + 1]
    /\ \E h \in TxHashes :
          mon' = [mon EXCEPT ![t] = [@ EXCEPT !.pc = "post", !.data = h]]
    /\ UNCHANGED <<thread, user_elems, chat_states, buyer_states, last_file, sup,
                   monitors, current_buyers, fulfilled, faults, api, pool>>

\* Mutant of AfterBuyFail: a failed purchase is answered with a message.
AfterBuyFailNotify(m) == [m EXCEPT !.pc = "fmt", !.tried = TRUE]

\* Line 220 with ok false: the `if` body is passed over and line 242 sleeps.
AfterBuyFail(m) == [m EXCEPT !.pc = "wait", !.tried = TRUE]

\* Lines 219-220 and 242: buy_stars returns (False, {}): nothing is sent, the
\* loop sleeps and goes on.
BuyFail(t) ==
    /\ sup = "running"
    /\ mon[t].pc = "buy"
    /\ mon' = [mon EXCEPT ![t] = AfterBuyFail(@)]
    /\ UNCHANGED <<thread, user_elems, chat_states, buyer_states, last_file, sup,
                   monitors, current_buyers, bought, fulfilled, faults, api, pool>>

\* Mutant of AfterPost: a failed click sends the run back to the waiting loop.
AfterPostRetry(m, w) ==
    IF w = "failed" THEN [m EXCEPT !.pc = "wait", !.workflow = w]
    ELSE [m EXCEPT !.pc = "report", !.workflow = w]

\* Lines 232-234: whether the clicks went through or one of them raised and
\* was logged, the completion message is sent next.
AfterPost(m, w) == [m EXCEPT !.pc = "report", !.workflow = w]

\* Lines 221-233: the clicks of the order page; a click that raises is
\* logged and the rest are skipped.
Post(t) ==
    /\ sup = "running"
    /\ mon[t].pc = "post"
    /\ \E w \in {"done", "failed"} :
          mon' = [mon EXCEPT ![t] = AfterPost(@, w)]
    /\ UNCHANGED <<thread, user_elems, chat_states, buyer_states, last_file, sup,
                   monitors, current_buyers, bought, fulfilled, faults, api, pool>>

\* Lines 234-239: the completion message (stars, telegram, transaction hash)
\* has been sent, the waiting flag is cleared and handle() returns.
Report(t) ==
    /\ sup = "running"
    /\ mon[t].pc = "report"
    /\ buyer_states' = FALSE
    /\ fulfilled' = fulfilled \cup {mon[t].i}
    /\ mon' = [mon EXCEPT ![t] = AfterHandle(@)]
    /\ chat_states' = StoredAfter(mon[t], chat_states)
    /\ UNCHANGED <<thread, user_elems, last_file, sup, monitors, current_buyers,
                   bought, faults, api, pool>>

\* Lines 241-242: the format-error message has been sent; the loop goes on.
Fmt(t) ==
    /\ sup = "running"
    /\ mon[t].pc = "fmt"
    /\ mon' = [mon EXCEPT ![t] = [@ EXCEPT !.pc = "wait", !.warned = TRUE]]
    /\ UNCHANGED <<thread, user_elems, chat_states, buyer_states, last_file, sup,
                   monitors, current_buyers, bought, fulfilled, faults, api, pool>>

\* ------------------------------------------------------ specification
Next ==
    \/ AppendEvent
    \/ SetField
    \/ SyncPass
    \/ SyncFail
    \/ Crash
    \/ Restart
    \/ \E t \in Tasks : Attach(t)
    \/ \E t \in Tasks : Poll(t)
    \/ \E t \in Tasks : Feed(t)
    \/ \E t \in Tasks : Fail(t)
    \/ \E t \in Tasks : Close(t)
    \/ \E t \in Tasks : Ask(t)
    \/ \E t \in Tasks : WaitPoll(t)
    \/ \E t \in Tasks : BuyOk(t)
    \/ \E t \in Tasks : BuyFail(t)
    \/ \E t \in Tasks : Post(t)
    \/ \E t \in Tasks : Report(t)
    \/ \E t \in Tasks : Fmt(t)

Spec == Init /\ [][Next]_vars

\* ------------------------------------------------------- PlayerokAPI
\* What one POST of an attempt ends in: a response (its status, and the
\* `success` field of its body), or an exception (transport error, timeout).
Responses ==
    {[raised |-> FALSE, status |-> 200, success |-> TRUE],
     [raised |-> FALSE, status |-> 200, success |-> FALSE],
     [raised |-> FALSE, status |-> 500, success |-> FALSE],
     [raised |-> TRUE, status |-> 0, success |-> FALSE]}

\* Mutant of AttemptOk: the `success` field of the body is not looked at.
StatusOk(op, r) == ~r.raised /\ r.status = 200

\* Line 109: resp.status == 200; line 125: resp.status == 200 and data.get('success')
AttemptOk(op, r) ==
    /\ ~r.raised
    /\ r.status = 200
    /\ op = "buy_stars" => r.success

\* Lines 114, 130: API_BACKOFF_FACTOR ** (attempt - 1)
Backoff(attempt) == API_BACKOFF_FACTOR ^ (attempt - 1)

\* send_message or buy_stars is called: `for attempt in range(1, API_RETRY_ATTEMPTS + 1)`
ApiCall ==
    /\ api.pc = "idle"
    /\ \E op \in {"send_message", "buy_stars"} :
          api' = [NoCall EXCEPT !.op = op, !.pc = "post", !.attempt = 1]
    /\ UNCHANGED <<mainVars, pool>>

\* Lines 106-113, 121-129: the attempt's POST ends. A good answer returns at
\* once; anything else is logged and the attempt goes on to its sleep.
ApiAttempt ==
    /\ api.pc = "post"
    /\ \E r \in Responses :
          api' = IF AttemptOk(api.op, r)
                 THEN [api EXCEPT !.resps = Append(@, r), !.pc = "returned",
                                  !.result = "true"]
                 ELSE [api EXCEPT !.resps = Append(@, r), !.pc = "sleep"]
    /\ UNCHANGED <<mainVars, pool>>

\* Lines 114-115, 130-131: the sleep that ends a failed attempt, then the
\* next attempt, or the return of the failure when the range is exhausted.
ApiSleep ==
    /\ api.pc = "sleep"
    /\ api' = IF api.attempt < API_RETRY_ATTEMPTS
              THEN [api EXCEPT !.sleeps = Append(@, Backoff(api.attempt)),
                               !.attempt = @ + 1, !.pc = "post"]
              ELSE [api EXCEPT !.sleeps = Append(@, Backoff(api.attempt)),
                               !.pc = "returned", !.result = "false"]
    /\ UNCHANGED <<mainVars, pool>>

ApiNext == ApiCall \/ ApiAttempt \/ ApiSleep

\* One call of the API client, from the call to its return.
SpecApi == Init /\ [][ApiNext]_vars

\* ------------------------------------------- main_loop, many buyers
\* The supervisor's bookkeeping over all buyers: which buyers have an entry
\* in `monitors`, given the listings of the sync passes and the waiting flags.
Buyers == 1..MaxBuyers

\* links[:MAX_CHATS]
Take(links, n) == [k \in 1..(IF Len(links) < n THEN Len(links) ELSE n) |-> links[k]]

\* How many chat links a listing page shows: none, one, as many as
\* MAX_CHATS, or more.
ListLengths == {0, 1, MAX_CHATS, MAX_CHATS + 1}

\* The chat links a listing page can show, in its order: a run of buyers.
ChatLists ==
    UNION {{[k \in 1..len |-> lo + k - 1] :
               len \in {n \in ListLengths : lo + n - 1 <= MaxBuyers}} :
              lo \in Buyers}

\* Lines 267-280 for one listing: every buyer of links[:MAX_CHATS] is put in
\* current_buyers and gets a monitor if it has none; then every monitored
\* buyer that is not in current_buyers and not waiting is cancelled and dropped.
SyncAll ==
    /\ \E links \in ChatLists :
          LET shown == Take(links, MAX_CHATS)
              current_all == {shown[k] : k \in 1..Len(shown)}
              started == pool.monitors \cup current_all
          IN pool' = [pool EXCEPT !.monitors =
                        {b \in started : ~ShouldCancel(b \in current_all,
                                                       b \in pool.waiting)}]
    /\ UNCHANGED <<mainVars, api>>

\* Line 204 in the monitor of buyer b: set_waiting(buyer, True).
StartWaiting(b) ==
    /\ b \in pool.monitors
    /\ b \notin pool.waiting
    /\ Cardinality(pool.waiting) < MaxWaiting
    /\ pool' = [pool EXCEPT !.waiting = @ \cup {b}]
    /\ UNCHANGED <<mainVars, api>>

\* Line 238 in the monitor of buyer b: set_waiting(buyer, False).
StopWaiting(b) ==
    /\ b \in pool.monitors
    /\ b \in pool.waiting
    /\ pool' = [pool EXCEPT !.waiting = @ \ {b}]
    /\ UNCHANGED <<mainVars, api>>

SyncNext ==
    \/ SyncAll
    \/ \E b \in Buyers : StartWaiting(b)
    \/ \E b \in Buyers : StopWaiting(b)

SpecSync == Init /\ [][SyncNext]_vars

\* =============================================================== claims
\* A payment line, and a quantity line, as handle() tells them apart.
IsPay(line) == ContainsPayment(Normalize(line))
IsQty(line) == ~IsPay(line) /\ MatchStars(Normalize(line)) # 0

\* Thread event e is a payment event: a quantity line that follows a payment
\* confirmation, with no other quantity line between the two.
PaymentEvent(e) ==
    /\ e \in 1..Len(thread)
    /\ IsQty(thread[e])
    /\ \E p \in 1..(e - 1) :
          /\ IsPay(thread[p])
          /\ \A k \in (p + 1)..(e - 1) : ~IsQty(thread[k])

\* C1 (as claimed): every payment event is fulfilled exactly once. No event
\* has a second successful purchase, and no event that the stored count has
\* passed (so that no attach or poll will feed it again) is without one.
C1_ExactlyOnce ==
    \A e \in 1..Len(thread) :
        PaymentEvent(e) =>
            /\ bought[e] <= 1
            /\ chat_states >= e => bought[e] >= 1

\* C2 (as claimed): between set_waiting(True) and set_waiting(False) of one
\* run of handle() exactly one buy_stars call is issued: no call is issued
\* in a run that has made one already.
C2_OnePurchaseCall ==
    \A t \in Tasks : ~(mon[t].pc = "buy" /\ mon[t].tried)

\* C2 (amended): in one run of handle()'s waiting loop every buy_stars call is
\* issued for a value just read whose digest differs from the stored one (a
\* repeated read of an unchanged value issues none), the waiting flag is
\* cleared only by a run whose last call succeeded, and a run whose call
\* succeeded issues no further call.
C2_OneSuccessfulPurchase ==
    [][\A t \in Tasks :
          /\ (mon[t].pc = "wait" /\ mon'[t].pc = "buy") =>
                /\ user_elems # <<>>
                /\ Sha256(user_elems[Len(user_elems)]) # last_file
                /\ last_file' = Sha256(user_elems[Len(user_elems)])
          /\ (WaitPoll(t) /\ buyer_states /\ user_elems # <<>>
              /\ Sha256(user_elems[Len(user_elems)]) = last_file) =>
                /\ mon'[t].pc = "wait"
                /\ bought' = bought /\ last_file' = last_file
          /\ (buyer_states /\ ~buyer_states') =>
                \E u \in Tasks : mon[u].pc = "report" /\ mon[u].data \in TxHashes
          /\ mon[t].pc \in {"post", "report"} =>
                mon'[t].pc \notin {"ask", "wait", "buy", "fmt"}
      ]_vars

\* C2 witness: a run that is about to clear the flag after a failed call and
\* then a successful one.
C2_Witness ==
    \E t \in Tasks : mon[t].pc = "report" /\ mon[t].tried /\ buyer_states

\* C3 (as claimed): the stored event count never decreases.
C3_CountMonotonic == [][chat_states' >= chat_states]_vars

\* C4: an attach that finds stored count k and N > k listed elements feeds
\* the elements k+1..N (one-based), each once and in order, feeds none at or
\* below k, and stores N when the last one has been handled; with k = N it
\* feeds nothing and stores N.
C4_AttachReplaysSuffix ==
    [][\A t \in Tasks :
          /\ (mon[t].pc = "top" /\ mon[t].page # "open" /\ mon'[t].page = "open"
              /\ mon'[t].pc = "top" /\ mon'[t].last_count >= chat_states) =>
                chat_states' = mon'[t].last_count
          /\ (mon[t].pc = "top" /\ mon'[t].pc = "batch" /\ mon'[t].attaching) =>
                /\ mon'[t].saved = chat_states
                /\ mon'[t].i = chat_states + 1
                /\ mon'[t].fed = <<>>
                /\ UNCHANGED chat_states
          /\ mon[t].attaching =>
                /\ mon[t].saved < mon[t].hi
                /\ mon[t].fed = [k \in 1..Len(mon[t].fed) |-> mon[t].saved + k]
                /\ mon[t].i = mon[t].saved + Len(mon[t].fed)
                              + (IF mon[t].pc = "batch" THEN 1 ELSE 0)
                /\ mon[t].i <= mon[t].hi
          /\ (mon[t].attaching /\ mon'[t].pc = "top") =>
                /\ mon[t].i = mon[t].hi
                /\ chat_states' = mon[t].hi
      ]_vars

\* C4 witness: an attach with a stored count above 0 that has fed the last
\* of at least two elements.
C4_Witness ==
    \E t \in Tasks :
        /\ mon[t].attaching /\ mon[t].saved >= 1
        /\ mon[t].i = mon[t].hi
        /\ Len(mon[t].fed) = mon[t].hi - mon[t].saved
        /\ Len(mon[t].fed) >= 2

\* C5 (as claimed): once the fulfillment of a thread event has completed, no
\* replay of that event issues another buy_stars call.
C5_NoPurchaseOnReplay ==
    \A t \in Tasks : mon[t].pc = "buy" => mon[t].i \notin fulfilled

\* C6: while the process runs, a monitored buyer whose waiting flag is set
\* stays in `monitors` and its task is not cancelled, whatever the listing.
C6_WaitingNotCancelled ==
    [][(sup = "running" /\ sup' = "running" /\ monitors # 0 /\ buyer_states) =>
          /\ monitors' = monitors
          /\ mon'[monitors].pc # "none"
      ]_vars

\* C6 witness: the last sync pass did not list the buyer, whose flag is set
\* and whose monitor is still there, in the waiting loop.
C6_Witness ==
    /\ current_buyers = {} /\ buyer_states
    /\ monitors # 0 /\ mon[monitors].pc = "wait"

\* C7 (as claimed): a sync pass that does not list a monitored buyer whose
\* flag is clear removes the monitor, and a task that is no longer in
\* `monitors` (it was cancelled and dropped) does nothing more.
C7_CancelledMonitorStops ==
    [][/\ (SyncPass /\ current_buyers' = {} /\ ~buyer_states) => monitors' = 0
       /\ \A t \in Tasks :
             (mon[t].pc # "none" /\ monitors # t /\ sup' = "running") =>
                 mon'[t] = mon[t]
      ]_vars

\* C8 (as claimed): once the payment and quantity lines have been processed
\* and the field shows '@id', buy_stars(id, q) is eventually called. A turn of
\* the waiting loop either calls buy_stars for the value it reads or passes
\* it over, and a value passed over is passed over on every later turn while
\* it is shown; so a run of the loop that has read a value '@id' has made a
\* buy_stars call.
C8_ValidRecipientPurchased ==
    \A t \in Tasks :
        (mon[t].pc = "wait" /\ Len(mon[t].last_user) > 0 /\ mon[t].last_user[1] = "@")
            => mon[t].tried

\* C9: in the waiting loop a newly observed value (its digest is not the
\* stored one) without the '@' leads to the format-error message with no
\* purchase and the flag still set, after which the loop waits on; a newly
\* observed '@id' leads to buy_stars(id, q).
C9_MalformedThenValid ==
    [][\A t \in Tasks :
          /\ (WaitPoll(t) /\ buyer_states /\ user_elems # <<>>
              /\ Sha256(user_elems[Len(user_elems)]) # last_file) =>
                LET v == user_elems[Len(user_elems)] IN
                IF v[1] = "@"
                THEN /\ mon'[t].pc = "buy"
                     /\ mon'[t].telegram = Tail(v)
                     /\ mon'[t].stars = mon[t].stars
                ELSE /\ mon'[t].pc = "fmt"
                     /\ buyer_states' /\ bought' = bought
          /\ (mon[t].pc = "fmt" /\ mon'[t].pc \notin {"fmt", "none"}) =>
                /\ mon'[t].pc = "wait"
                /\ buyer_states' = buyer_states /\ bought' = bought
      ]_vars

\* C9 witness: a purchase call in a run that has sent the format-error message.
C9_Witness ==
    \E t \in Tasks : mon[t].pc = "buy" /\ mon[t].warned /\ buyer_states

\* C10 (as claimed): a call whose every attempt failed has slept 1 s after
\* the first attempt and 2 s after the second, and not otherwise.
C10_SleepsBetweenAttempts ==
    (api.pc = "returned" /\ api.result = "false") =>
        /\ Len(api.resps) = API_RETRY_ATTEMPTS
        /\ api.sleeps = <<1, 2>>

\* An answer the claim takes for a good one: HTTP 200, and for buy_stars a
\* true success flag in the body.
GoodAnswer(op, r) ==
    /\ ~r.raised
    /\ r.status = 200
    /\ (op = "buy_stars") => r.success

\* C11: every attempt failure becomes a return value. A returned call has
\* returned true or false. It returned true exactly at its first good
\* answer (HTTP 200, and for buy_stars a true success flag), having made no
\* attempt after it; it returned false after API_RETRY_ATTEMPTS attempts of
\* which none was good. A non-200 status or a raised transport error is
\* followed by the attempt's sleep, never by anything else.
C11_FailuresBecomeReturnValues ==
    /\ api.pc \in {"idle", "post", "sleep", "returned"}
    /\ Len(api.resps) <= API_RETRY_ATTEMPTS
    /\ \A k \in 1..(Len(api.resps) - 1) : ~GoodAnswer(api.op, api.resps[k])
    /\ api.pc = "sleep" =>
          /\ Len(api.resps) = api.attempt
          /\ ~GoodAnswer(api.op, api.resps[api.attempt])
    /\ api.pc = "returned" =>
          /\ api.result \in {"true", "false"}
          /\ api.result = "true" =>
                /\ Len(api.resps) = api.attempt
                /\ GoodAnswer(api.op, api.resps[Len(api.resps)])
          /\ api.result = "false" =>
                /\ Len(api.resps) = API_RETRY_ATTEMPTS
                /\ \A k \in 1..API_RETRY_ATTEMPTS : ~GoodAnswer(api.op, api.resps[k])

\* C11 witness: buy_stars has returned false after a transport error, an
\* HTTP 200 without the success flag, and a non-200 status.
C11_Witness ==
    /\ api.op = "buy_stars" /\ api.pc = "returned" /\ api.result = "false"
    /\ api.resps[1].raised
    /\ ~api.resps[2].raised /\ api.resps[2].status = 200
    /\ ~api.resps[3].raised /\ api.resps[3].status # 200

\* C12 (as claimed): no failure of a page-driver call of a sync pass ends
\* main_loop: the process is never ended by an exception.
C12_SupervisorKeepsRunning == sup # "failed"

InBatch(m) == m.pc \in {"batch", "ask", "wait", "buy", "post", "report", "fmt"}

C15_EventsInOrder ==
    [][\A t \in Tasks :
          /\ InBatch(mon[t]) =>
                /\ mon[t].fed = [k \in 1..Len(mon[t].fed) |-> mon[t].saved + k]
                /\ mon[t].i = mon[t].saved + Len(mon[t].fed)
                              + (IF mon[t].pc = "batch" THEN 1 ELSE 0)
                /\ mon[t].i <= mon[t].hi /\ mon[t].hi <= Len(thread)
          /\ (mon[t].pc = "top" /\ mon'[t].pc = "batch") =>
                /\ mon'[t].saved = (IF mon'[t].attaching THEN chat_states
                                                         ELSE mon[t].last_count)
                /\ mon'[t].i = mon'[t].saved + 1
                /\ mon'[t].hi = Len(thread)
                /\ mon'[t].fed = <<>>
          /\ (InBatch(mon[t]) /\ InBatch(mon'[t]) /\ mon'[t].i # mon[t].i) =>
                /\ mon'[t].i = mon[t].i + 1
                /\ mon'[t].pc = "batch"
                /\ mon'[t].saved = mon[t].saved /\ mon'[t].hi = mon[t].hi
                /\ mon'[t].last_count = mon[t].last_count
          /\ (InBatch(mon[t]) /\ mon'[t].pc = "top") =>
                /\ mon[t].i = mon[t].hi
                /\ Len(mon[t].fed) + (IF mon[t].pc = "batch" THEN 1 ELSE 0)
                      = mon[t].hi - mon[t].saved
                /\ mon'[t].last_count = mon[t].hi
                /\ chat_states' = mon[t].hi
      ]_vars

\* C15 witness: after a failure, a poll batch that began at a count above 0
\* has fed its first event and is at its second.
C15_Witness ==
    \E t \in Tasks :
        /\ faults >= 1 /\ ~mon[t].attaching /\ mon[t].pc = "batch"
        /\ mon[t].saved >= 1 /\ Len(mon[t].fed) >= 1

\* C16 (as claimed): the quantity passed to buy_stars is that of the last
\* quantity line that follows the payment confirmation: when the call is
\* made, no later quantity line of the thread (with no payment line between)
\* names another quantity.
C16_LastQuantityWins ==
    \A t \in Tasks :
        mon[t].pc = "buy" =>
            \A e \in (mon[t].i + 1)..Len(thread) :
                (/\ IsQty(thread[e])
                 /\ \A k \in (mon[t].i + 1)..e : ~IsPay(thread[k]))
                    => MatchStars(Normalize(thread[e])) = mon[t].stars

\* C17: when buy_stars returns failure the monitor goes back to the waiting
\* loop without sending a message (it is at none of the awaits of a
\* send_message), the flag stays true and nothing is purchased; and while
\* the field shows the value just tried, whose digest is the stored one, a
\* turn of the loop makes no purchase call.
C17_FailedPurchaseKeepsWaiting ==
    [][\A t \in Tasks :
          /\ (mon[t].pc = "buy" /\ mon'[t].pc \notin {"buy", "post", "none"}) =>
                /\ mon'[t].pc = "wait"
                /\ mon'[t].tried
                /\ mon'[t].warned = mon[t].warned
                /\ mon'[t].data = NoData
                /\ mon'[t].last_user = mon[t].last_user
                /\ buyer_states /\ buyer_states'
                /\ bought' = bought
          /\ (mon[t].pc = "wait" /\ mon[t].tried
              /\ \A u \in Tasks \ {t} : mon[u].pc = "none") =>
                last_file = Sha256(mon[t].last_user)
          /\ (WaitPoll(t) /\ mon[t].tried /\ buyer_states /\ user_elems # <<>>
              /\ user_elems[Len(user_elems)] = mon[t].last_user
              /\ last_file = Sha256(mon[t].last_user)) =>
                /\ mon'[t].pc = "wait"
                /\ bought' = bought
      ]_vars

\* C17 witness: a monitor back in the waiting loop after a failed purchase,
\* with the value it tried still shown.
C17_Witness ==
    \E t \in Tasks :
        /\ mon[t].pc = "wait" /\ mon[t].tried /\ buyer_states
        /\ user_elems # <<>> /\ user_elems[Len(user_elems)] = mon[t].last_user
        /\ StartsWithAt(mon[t].last_user)

\* C18: after a successful purchase a failure in the order-page workflow
\* does not stop the fulfillment. The run goes on to send the completion
\* message with the quantity, identifier and transaction hash it holds, then
\* clears the flag and leaves handle(); between the purchase and that return
\* it makes no purchase call.
C18_WorkflowFailureStillReports ==
    [][\A t \in Tasks :
          /\ (mon[t].pc = "post" /\ mon'[t].pc \notin {"post", "none"}) =>
                /\ mon'[t].pc = "report"
                /\ mon'[t].workflow \in {"done", "failed"}
                /\ mon'[t].data = mon[t].data /\ mon[t].data \in TxHashes
                /\ mon'[t].stars = mon[t].stars
                /\ mon'[t].telegram = mon[t].telegram
                /\ bought' = bought
          /\ (mon[t].pc = "report" /\ mon[t].workflow = "failed"
              /\ mon'[t].pc \notin {"report", "none"}) =>
                /\ mon[t].data \in TxHashes
                /\ mon[t].stars > 0 /\ mon[t].telegram # NoText
                /\ ~buyer_states'
                /\ mon[t].i \in fulfilled'
                /\ mon'[t].pc \in {"top", "batch"}
                /\ bought' = bought
      ]_vars

\* C18 witness: the workflow has failed and the run is sending the
\* completion message, the flag still set.
C18_Witness ==
    \E t \in Tasks :
        /\ mon[t].pc = "report" /\ mon[t].workflow = "failed"
        /\ mon[t].data \in TxHashes /\ buyer_states
        /\ bought[mon[t].i] = 1

\* C19 (as claimed): no orphaned waiting flag. The flag is not true while
\* the process runs and a monitor idles at the top of its loop with its page
\* open and every event of the thread handled and counted: no state machine
\* is in the waiting loop, and no attach or poll will feed an event that
\* takes one there.
C19_NoOrphanFlag ==
    \A t \in Tasks :
        ~(/\ buyer_states /\ sup = "running"
          /\ mon[t].pc = "top" /\ mon[t].page = "open"
          /\ mon[t].last_count = Len(thread) /\ chat_states = Len(thread))

\* C20 (as claimed): `monitors` never holds more than MAX_CHATS monitors.
C20_AtMostMaxChats == Cardinality(pool.monitors) <= MAX_CHATS

====
